---- MODULE Spec2Model ----
(***************************************************************************)
(* A model of make_video.py: the vocabulary-card video builder.            *)
(*                                                                         *)
(* Text is a sequence of one-character strings.  Pixel widths are kept in  *)
(* hundredths of a pixel, so that the multipliers 1.1, 0.65 and 0.35 of    *)
(* the source are the integers 110, 65 and 35.  The source computes them   *)
(* in binary floating point: a sum whose exact value differs from the      *)
(* integer budget differs from it by at least 0.05 and is compared as in   *)
(* exact arithmetic, while a sum whose exact value EQUALS the budget may   *)
(* come out just above it (50 * 1.1 = 55.00000000000001) or exactly on it  *)
(* (10 * 1.1 = 11.0).  The variable fp_tie_over chooses between these two  *)
(* outcomes.                                                               *)
(***************************************************************************)
EXTENDS Integers, Sequences, FiniteSets, TLC

VARIABLES
    \* ---- a call of wrap_text_for_display
    text, max_width_px, font_size, fp_tie_over, result, returned,
    \* ---- the timing configuration and the playback of one clip
    WORD_S, INFO_S, frame, drawn,
    \* ---- a run of main()
    pc, fieldnames, file_rows, rows, idx,
    tmp_files, jobs, clips, manifest, concat_cmds, stdout, error, exit_code

wrapVars == <<text, max_width_px, font_size, result, returned>>
clipVars == <<frame, drawn>>
mainVars == <<pc, fieldnames, file_rows, rows, idx,
              tmp_files, jobs, clips, manifest, concat_cmds, stdout, error,
              exit_code>>
vars == <<text, max_width_px, font_size, fp_tie_over, result, returned,
          WORD_S, INFO_S, frame, drawn,
          pc, fieldnames, file_rows, rows, idx,
          tmp_files, jobs, clips, manifest, concat_cmds, stdout, error,
          exit_code>>

\* Python's None (a value no text equals).
None == <<"None">>
\* the value of fieldnames, and of rows, before main() binds the name
Unbound == <<"unbound">>
UnboundRows == <<[unbound |-> TRUE]>>

-----------------------------------------------------------------------------
(* Bounds of the model.                                                    *)

\* longest text handed to wrap_text_for_display on its own
MaxLen == 5
\* font sizes 1..MaxFontSize and pixel widths 1..MaxWidthPx of those calls
MaxFontSize == 2
MaxWidthPx == 5
\* word / info durations 1..MaxSeconds (besides the configured 5 and 10)
MaxSeconds == 2
\* most lines (blank ones included) in the input table
MaxRows == 3

-----------------------------------------------------------------------------
(* CONFIG                                                                  *)

WIDTH == 1920
HEIGHT == 1080
FPS == 30
WORD_S_CONFIG == 5
PAUSE1_S == 0
INFO_S_CONFIG == 10
PAUSE2_S == 0
TOTAL_S == WORD_S + PAUSE1_S + INFO_S + PAUSE2_S

WORD_SIZE == 180
READING_SIZE == 92
JP_EX_SIZE == 96
EN_EX_SIZE == 50
TEXT_MAX_WIDTH == 1200
READING_Y == 220
JP_EX_Y == 350
EN_EX_Y == 500

\* the multipliers of wrap_text_for_display, in hundredths
SAFETY_PCT == 85
CJK_WIDTH_PCT == 110
OTHER_WIDTH_PCT == 65
SPACE_WIDTH_PCT == 35

-----------------------------------------------------------------------------
(* Characters.  "W" stands for any code point of the Hiragana, Katakana or *)
(* CJK Unified Ideographs ranges, "a" for any other printing character.    *)

Whitespace == {" ", "\n", "\r", "\t"}
\* a lone surrogate code point: the one kind of character str.encode('utf-8',
\* errors='ignore') drops.  Text decoded from a UTF-8 file never holds one.
LoneSurrogate == "<surrogate>"

IsCJK(char) == char = "W"

\* str.split(): the maximal runs of non-whitespace characters, in order
RECURSIVE SplitFrom(_, _, _, _)
SplitFrom(s, i, cur, acc) ==
    IF i > Len(s)
    THEN IF cur = <<>> THEN acc ELSE Append(acc, cur)
    ELSE IF s[i] \in Whitespace
         THEN SplitFrom(s, i + 1, <<>>, IF cur = <<>> THEN acc ELSE Append(acc, cur))
         ELSE SplitFrom(s, i + 1, Append(cur, s[i]), acc)

Split(s) == SplitFrom(s, 1, <<>>, <<>>)

\* faulty variant: the separator is left out
RECURSIVE JoinNoSep(_, _)
JoinNoSep(sep, parts) ==
    IF parts = <<>> THEN <<>> ELSE parts[1] \o JoinNoSep(sep, Tail(parts))

\* sep.join(parts)
RECURSIVE Join(_, _)
Join(sep, parts) ==
    IF parts = <<>> THEN <<>>
    ELSE IF Len(parts) = 1 THEN parts[1]
    ELSE parts[1] \o <<sep>> \o Join(sep, Tail(parts))

\* str.strip(): leading and trailing whitespace removed
RECURSIVE LStrip(_)
LStrip(s) ==
    IF s # <<>> /\ s[1] \in Whitespace THEN LStrip(Tail(s)) ELSE s

RECURSIVE RStrip(_)
RStrip(s) ==
    IF s # <<>> /\ s[Len(s)] \in Whitespace
    THEN RStrip(SubSeq(s, 1, Len(s) - 1)) ELSE s

\* faulty variant: the field is not stripped
StripNothing(s) == s

Strip(s) == RStrip(LStrip(s))

\* result.encode('utf-8', errors='ignore').decode('utf-8')
Utf8Roundtrip(s) == SelectSeq(s, LAMBDA char : char # LoneSurrogate)

-----------------------------------------------------------------------------
(* wrap_text_for_display                                                   *)

\* int(max_width_px * 0.85)
SafeMaxWidth(max_width) == (max_width * SAFETY_PCT) \div 100

\* number of characters of a word that satisfy IsCJK
RECURSIVE CjkCount(_)
CjkCount(word) ==
    IF word = <<>> THEN 0
    ELSE (IF IsCJK(word[1]) THEN 1 ELSE 0) + CjkCount(Tail(word))

\* faulty variant: the two multipliers are exchanged
WordWidthSwapped(word, size) ==
    (CjkCount(word) * size * OTHER_WIDTH_PCT)
    + ((Len(word) - CjkCount(word)) * size * CJK_WIDTH_PCT)

\* word_width_px, in hundredths
WordWidth(word, size) ==
    (CjkCount(word) * size * CJK_WIDTH_PCT)
    + ((Len(word) - CjkCount(word)) * size * OTHER_WIDTH_PCT)

\* faulty variant: the space between two words is not counted
SpaceWidthForgotten(current_line, size) == 0

\* space_width_px, in hundredths
SpaceWidth(current_line, size) ==
    IF current_line # <<>> THEN size * SPACE_WIDTH_PCT ELSE 0

\* the comparison  estimate <= safe_max_width  of floating-point estimates
FitsBudget(estimate100, safe_max_width) ==
    \/ estimate100 < safe_max_width * 100
    \/ estimate100 = safe_max_width * 100 /\ ~fp_tie_over

\* the for loop: words[i..] still to place, lines closed so far, the line
\* being accumulated and its running estimate
RECURSIVE WrapLoop(_, _, _, _, _, _, _)
WrapLoop(words, i, lines, current_line, current_pixel_estimate, size, safe) ==
    IF i > Len(words)
    THEN IF current_line # <<>>
         THEN Append(lines, Join(" ", current_line))
         ELSE lines
    ELSE LET word == words[i]
             word_width_px == WordWidth(word, size)
             space_width_px == SpaceWidth(current_line, size)
         IN  IF FitsBudget(current_pixel_estimate + word_width_px + space_width_px, safe)
             THEN WrapLoop(words, i + 1, lines, Append(current_line, word),
                           current_pixel_estimate + word_width_px + space_width_px,
                           size, safe)
             ELSE WrapLoop(words, i + 1,
                           IF current_line # <<>>
                           THEN Append(lines, Join(" ", current_line))
                           ELSE lines,
                           <<word>>, word_width_px, size, safe)

\* the lines list at the end of the loop
WrapLines(txt, max_width, size) ==
    WrapLoop(Split(txt), 1, <<>>, <<>>, 0, size, SafeMaxWidth(max_width))

wrap_text_for_display(txt, max_width, size) ==
    IF txt = <<>> THEN txt
    ELSE IF Split(txt) = <<>> THEN txt
    ELSE Utf8Roundtrip(Join("\n", WrapLines(txt, max_width, size)))

-----------------------------------------------------------------------------
(* write_textfile, make_clip                                               *)

\* text.replace("\r\n", "\n").replace("\r", "\n")
RECURSIVE CleanNewlines(_)
CleanNewlines(s) ==
    IF s = <<>> THEN <<>>
    ELSE IF s[1] = "\r" /\ Len(s) >= 2 /\ s[2] = "\n"
         THEN <<"\n">> \o CleanNewlines(Tail(Tail(s)))
    ELSE IF s[1] = "\r" THEN <<"\n">> \o CleanNewlines(Tail(s))
    ELSE <<s[1]>> \o CleanNewlines(Tail(s))

\* the content write_textfile leaves in the file
write_textfile(txt) ==
    IF txt = None THEN <<>> ELSE CleanNewlines(txt)

\* the decimal digits of n, most significant first
DigitChar(d) == <<"0", "1", "2", "3", "4", "5", "6", "7", "8", "9">>[d + 1]

RECURSIVE Digits(_)
Digits(n) ==
    IF n < 10 THEN <<DigitChar(n)>>
    ELSE Append(Digits(n \div 10), DigitChar(n % 10))

\* f"{idx:04d}": zero-padded to at least four digits
Fmt04(n) ==
    LET d == Digits(n)
    IN  IF Len(d) >= 4 THEN d ELSE [i \in 1..(4 - Len(d)) |-> "0"] \o d

\* TMP_DIR / f"{idx:04d}_<kind>.txt" and OUT_DIR / f"{idx:04d}.mp4"
TxtPath(n, kind) == Append(Fmt04(n), kind)
Mp4Path(n) == Append(Fmt04(n), ".mp4")

LayerKinds == <<"_word.txt", "_reading.txt", "_jp.txt", "_en.txt">>

\* faulty variant: example_en is persisted like the word, without wrapping
ClipTextsEnUnwrapped(word, reading, example_jp, example_en) ==
    << write_textfile(Strip(word)),
       write_textfile(wrap_text_for_display(Strip(reading), TEXT_MAX_WIDTH, READING_SIZE)),
       write_textfile(wrap_text_for_display(Strip(example_jp), TEXT_MAX_WIDTH, JP_EX_SIZE)),
       write_textfile(Strip(example_en)) >>

\* the four texts make_clip persists, in the order it writes them
ClipTexts(word, reading, example_jp, example_en) ==
    << write_textfile(Strip(word)),
       write_textfile(wrap_text_for_display(Strip(reading), TEXT_MAX_WIDTH, READING_SIZE)),
       write_textfile(wrap_text_for_display(Strip(example_jp), TEXT_MAX_WIDTH, JP_EX_SIZE)),
       write_textfile(wrap_text_for_display(Strip(example_en), TEXT_MAX_WIDTH, EN_EX_SIZE)) >>

\* ffmpeg's between(t, lo, hi) at the frame with t = frm / FPS:  lo <= t <= hi
Between(frm, lo, hi) == lo * FPS <= frm /\ frm <= hi * FPS

\* the drawtext operations of vf, in order; enable = <<from, to>> in seconds
DrawtextOps(n) ==
    LET info_start == WORD_S + PAUSE1_S
        info_end == info_start + INFO_S
    IN  << [textfile |-> TxtPath(n, "_word.txt"), fontsize |-> WORD_SIZE,
            boxw |-> 0, y |-> HEIGHT \div 2, enable |-> <<0, WORD_S>>],
           [textfile |-> TxtPath(n, "_reading.txt"), fontsize |-> READING_SIZE,
            boxw |-> TEXT_MAX_WIDTH, y |-> READING_Y,
            enable |-> <<info_start, info_end>>],
           [textfile |-> TxtPath(n, "_jp.txt"), fontsize |-> JP_EX_SIZE,
            boxw |-> TEXT_MAX_WIDTH, y |-> JP_EX_Y,
            enable |-> <<info_start, info_end>>],
           [textfile |-> TxtPath(n, "_en.txt"), fontsize |-> EN_EX_SIZE,
            boxw |-> TEXT_MAX_WIDTH, y |-> EN_EX_Y,
            enable |-> <<info_start, info_end>>] >>

\* the ffmpeg command of make_clip
ClipCmd(n) ==
    [idx |-> n, duration |-> TOTAL_S, rate |-> FPS, vf |-> DrawtextOps(n),
     codec |-> "libx264", pix_fmt |-> "yuv420p", out |-> Mp4Path(n)]

\* faulty variant: check=True is left out: a failed command goes unnoticed
RunUnchecked(ok, next_pc) == next_pc

\* run(): subprocess.run(cmd, check=True) raises when the command fails
RunChecked(ok, next_pc) == IF ok THEN next_pc ELSE "crashed"

-----------------------------------------------------------------------------
(* Playback of one clip: the renderer evaluates every enable expression at *)
(* every frame 0 .. TOTAL_S*FPS - 1 of the colour source.                  *)

EnabledOps(frm) ==
    {i \in 1..4 : Between(frm, DrawtextOps(1)[i].enable[1], DrawtextOps(1)[i].enable[2])}

RenderFrame ==
    /\ frame + 1 < TOTAL_S * FPS
    /\ frame' = frame + 1
    /\ drawn' = EnabledOps(frame + 1)
    /\ UNCHANGED <<WORD_S, INFO_S, fp_tie_over>>
    /\ UNCHANGED wrapVars
    /\ UNCHANGED mainVars

-----------------------------------------------------------------------------
(* The input table as csv.DictReader presents it.                          *)

Required == {"word", "reading", "example_jp", "example_en"}

Range(f) == {f[i] : i \in DOMAIN f}

\* faulty variant: only an absent header is rejected
HeaderRejectedIfAbsent(names) == names = None \/ names = <<>>

\* not reader.fieldnames or not required.issubset(set(reader.fieldnames))
HeaderRejected(names) ==
    names = None \/ names = <<>> \/ ~(Required \subseteq Range(names))

\* one data line as a dict: a line shorter than the header leaves the
\* remaining keys at restval (None); cells beyond the header are collected
\* under restkey, which no row.get of main reads
DictRow(names, cells) ==
    [k \in Range(names) |->
        LET i == CHOOSE j \in DOMAIN names : names[j] = k
        IN  IF i <= Len(cells) THEN cells[i] ELSE None]

\* list(reader): DictReader skips every line that has no cell at all
ReadRows(names, lines) ==
    LET kept == SelectSeq(lines, LAMBDA cells : cells # <<>>)
    IN  [i \in 1..Len(kept) |-> DictRow(names, kept[i])]

\* row.get(key, default)
RowGet(row, key, default) ==
    IF key \in DOMAIN row THEN row[key] ELSE default

\* the arguments main passes to make_clip for a row
ClipArgs(row) ==
    << RowGet(row, "word", <<>>), RowGet(row, "reading", <<>>),
       RowGet(row, "example_jp", <<>>), RowGet(row, "example_en", <<>>) >>

\* faulty variant: range(num_clips) instead of range(1, num_clips + 1)
ConcatLinesFromZero(num_clips) == [i \in 1..num_clips |-> Mp4Path(i - 1)]

\* concat_all: the lines of concat.txt, each naming one clip file
ConcatLines(num_clips) == [i \in 1..num_clips |-> Mp4Path(i)]

-----------------------------------------------------------------------------
(* Inputs the model draws from.                                            *)

Rep(char, n) == [i \in 1..n |-> char]

HeaderChoices ==
    { None,
      <<"word", "reading", "example_jp", "example_en">>,
      <<"word", "example_jp", "example_en">>,
      <<"example_en", "word", "note", "reading", "example_jp">> }

\* the cells of one line of the table
LineChoices ==
    { <<>>,
      \* 猫 / ねこ / 猫が好きです。 / I like cats.
      << <<"W">>, <<"W", "W">>, Rep("W", 6) \o <<"a">>,
         <<"a", " ">> \o Rep("a", 4) \o <<" ">> \o Rep("a", 5) >>,
      \* an empty example_en and a whitespace-only reading
      << <<"W">>, <<" ", " ">>, Rep("W", 3), <<>> >>,
      \* a line with the word alone
      << <<"a", "a">> >>,
      \* a word of two tokens and texts longer than one line
      << Rep("W", 3) \o <<" ">> \o Rep("W", 3),
         <<" ">> \o Rep("W", 6) \o <<" ", " ">> \o Rep("W", 6),
         Rep("W", 9) \o <<" ">> \o Rep("a", 2) \o <<"\r", "\n">> \o Rep("W", 5),
         Rep("a", 20) \o <<" ">> \o Rep("a", 20) >> }

RECURSIVE SeqsUpTo(_, _)
SeqsUpTo(S, n) ==
    IF n = 0 THEN {<<>>}
    ELSE LET shorter == SeqsUpTo(S, n - 1)
         IN  shorter \cup {Append(q, x) : q \in shorter, x \in S}

\* the characters of the texts handed to wrap_text_for_display on its own
Alphabet == {"a", "W", " ", "\n"}

-----------------------------------------------------------------------------
(* main()                                                                  *)

Min(S) == CHOOSE m \in S : \A n \in S : m <= n

\* sys.exit(1) after printing msgs
Exit1(msgs) ==
    /\ stdout' = stdout \o msgs
    /\ pc' = "exited"
    /\ exit_code' = 1

\* ffmpeg_exists(), ensure_dirs()
FfmpegExists ==
    /\ pc = "ffmpeg_exists"
    /\ \E ok \in BOOLEAN :
          IF ok
          THEN pc' = "csv_exists" /\ UNCHANGED <<stdout, exit_code>>
          ELSE Exit1(<< <<"ERROR: ffmpeg not found on PATH.", <<>> >> >>)
    /\ UNCHANGED <<fieldnames, file_rows, rows, idx, tmp_files, jobs, clips,
                   manifest, concat_cmds, error>>
    /\ UNCHANGED <<WORD_S, INFO_S, fp_tie_over>>
    /\ UNCHANGED wrapVars
    /\ UNCHANGED clipVars

\* if not CSV_PATH.exists()
CsvExists ==
    /\ pc = "csv_exists"
    /\ \E exists \in BOOLEAN :
          IF exists
          THEN pc' = "read_header" /\ UNCHANGED <<stdout, exit_code>>
          ELSE Exit1(<< <<"ERROR: CSV not found", <<>> >> >>)
    /\ UNCHANGED <<fieldnames, file_rows, rows, idx, tmp_files, jobs, clips,
                   manifest, concat_cmds, error>>
    /\ UNCHANGED <<WORD_S, INFO_S, fp_tie_over>>
    /\ UNCHANGED wrapVars
    /\ UNCHANGED clipVars

\* csv.DictReader(f, delimiter="\t") and the check of reader.fieldnames
ReadHeader ==
    /\ pc = "read_header"
    /\ \E names \in HeaderChoices :
          /\ fieldnames' = names
          /\ IF HeaderRejected(names)
             THEN Exit1(<< <<"ERROR: CSV headers must be exactly:", <<>> >>,
                           <<"Found headers:", names>> >>)
             ELSE pc' = "read_rows" /\ UNCHANGED <<stdout, exit_code>>
    /\ UNCHANGED <<file_rows, rows, idx, tmp_files, jobs, clips, manifest,
                   concat_cmds, error>>
    /\ UNCHANGED <<WORD_S, INFO_S, fp_tie_over>>
    /\ UNCHANGED wrapVars
    /\ UNCHANGED clipVars

\* rows = list(reader) and the check of rows
ReadTable ==
    /\ pc = "read_rows"
    /\ \E lines \in SeqsUpTo(LineChoices, MaxRows) :
          /\ file_rows' = lines
          /\ rows' = ReadRows(fieldnames, lines)
          /\ IF ReadRows(fieldnames, lines) = <<>>
             THEN Exit1(<< <<"ERROR: CSV has no rows.", <<>> >> >>) /\ UNCHANGED idx
             ELSE /\ stdout' = Append(stdout, <<"Rendering clips", <<>> >>)
                  /\ pc' = "make_clip"
                  /\ idx' = 1
                  /\ UNCHANGED exit_code
    /\ UNCHANGED <<fieldnames, tmp_files, jobs, clips, manifest, concat_cmds,
                   error>>
    /\ UNCHANGED <<WORD_S, INFO_S, fp_tie_over>>
    /\ UNCHANGED wrapVars
    /\ UNCHANGED clipVars

\* the files make_clip has written when it has persisted the first n texts
Written(n, texts) ==
    [p \in {TxtPath(idx, LayerKinds[i]) : i \in 1..n} |->
        texts[CHOOSE i \in 1..n : TxtPath(idx, LayerKinds[i]) = p]]

\* one turn of the for loop of main: make_clip(idx, row.get(...), ...)
MakeClip ==
    /\ pc = "make_clip"
    /\ LET args == ClipArgs(rows[idx])
           texts == ClipTexts(args[1], args[2], args[3], args[4])
           missing == {i \in 1..4 : args[i] = None}
       IN  IF missing # {}
           THEN \* None.strip() raises AttributeError
                /\ tmp_files' = Written(Min(missing) - 1, texts) @@ tmp_files
                /\ error' = "AttributeError"
                /\ pc' = "crashed"
                /\ exit_code' = 1
                /\ UNCHANGED <<jobs, clips, idx>>
           ELSE /\ tmp_files' = Written(4, texts) @@ tmp_files
                /\ jobs' = Append(jobs, ClipCmd(idx))
                /\ \E ok \in BOOLEAN :
                      /\ pc' = RunChecked(ok, IF idx < Len(rows)
                                              THEN "make_clip" ELSE "concat_all")
                      /\ clips' = IF ok THEN clips \cup {Mp4Path(idx)} ELSE clips
                      /\ IF RunChecked(ok, "next") = "crashed"
                         THEN /\ error' = "CalledProcessError"
                              /\ exit_code' = 1
                              /\ UNCHANGED idx
                         ELSE /\ idx' = idx + 1
                              /\ UNCHANGED <<error, exit_code>>
    /\ UNCHANGED <<fieldnames, file_rows, rows, manifest, concat_cmds, stdout>>
    /\ UNCHANGED <<WORD_S, INFO_S, fp_tie_over>>
    /\ UNCHANGED wrapVars
    /\ UNCHANGED clipVars

\* concat_all(len(rows))
ConcatAll ==
    /\ pc = "concat_all"
    /\ manifest' = ConcatLines(Len(rows))
    /\ concat_cmds' = Append(concat_cmds,
                             [input |-> "concat.txt", codec |-> "copy",
                              out |-> "jp_vocab_video.mp4"])
    /\ \E ok \in BOOLEAN :
          /\ pc' = RunChecked(ok, "done")
          /\ IF RunChecked(ok, "done") = "crashed"
             THEN /\ error' = "CalledProcessError"
                  /\ exit_code' = 1
                  /\ UNCHANGED stdout
             ELSE /\ stdout' = Append(stdout, <<"DONE:", <<>> >>)
                  /\ exit_code' = 0
                  /\ UNCHANGED error
    /\ UNCHANGED <<fieldnames, file_rows, rows, idx, tmp_files, jobs, clips>>
    /\ UNCHANGED <<WORD_S, INFO_S, fp_tie_over>>
    /\ UNCHANGED wrapVars
    /\ UNCHANGED clipVars

-----------------------------------------------------------------------------
(* A call of wrap_text_for_display on its own.                             *)

CallWrap ==
    /\ ~returned
    /\ result' = wrap_text_for_display(text, max_width_px, font_size)
    /\ returned' = TRUE
    /\ UNCHANGED <<text, max_width_px, font_size, fp_tie_over, WORD_S, INFO_S>>
    /\ UNCHANGED clipVars
    /\ UNCHANGED mainVars

-----------------------------------------------------------------------------
(* Specifications.                                                         *)

WrapIdle ==
    /\ text = <<>> /\ max_width_px = TEXT_MAX_WIDTH /\ font_size = READING_SIZE
    /\ result = None /\ returned = FALSE

ClipIdle == frame = -1 /\ drawn = {}

ConfiguredTiming == WORD_S = WORD_S_CONFIG /\ INFO_S = INFO_S_CONFIG

MainStart ==
    /\ pc = "ffmpeg_exists"
    /\ fieldnames = Unbound /\ file_rows = <<>> /\ rows = UnboundRows /\ idx = 0
    /\ tmp_files = <<>> /\ jobs = <<>> /\ clips = {}
    /\ manifest = None /\ concat_cmds = <<>> /\ stdout = <<>>
    /\ error = "none" /\ exit_code = -1

\* a run of main() with the configuration of the source
Init ==
    /\ MainStart /\ WrapIdle /\ ClipIdle /\ ConfiguredTiming
    /\ fp_tie_over \in BOOLEAN

Next ==
    \/ FfmpegExists
    \/ CsvExists
    \/ ReadHeader
    \/ ReadTable
    \/ MakeClip
    \/ ConcatAll

Spec == Init /\ [][Next]_vars

\* wrap_text_for_display on every text over Alphabet of at most MaxLen
\* characters
InitWrap ==
    /\ text \in SeqsUpTo(Alphabet, MaxLen)
    /\ max_width_px \in 1..MaxWidthPx
    /\ font_size \in 1..MaxFontSize
    /\ fp_tie_over \in BOOLEAN
    /\ result = None /\ returned = FALSE
    /\ MainStart /\ ClipIdle /\ ConfiguredTiming

NextWrap == CallWrap

SpecWrap == InitWrap /\ [][NextWrap]_vars

\* the playback of a clip under any positive word and info durations
InitClip ==
    /\ WORD_S \in (1..MaxSeconds) \cup {WORD_S_CONFIG}
    /\ INFO_S \in (1..MaxSeconds) \cup {INFO_S_CONFIG}
    /\ fp_tie_over = FALSE
    /\ MainStart /\ WrapIdle /\ ClipIdle

NextClip == RenderFrame

SpecClip == InitClip /\ [][NextClip]_vars

-----------------------------------------------------------------------------
(* Properties of wrap_text_for_display (checked under SpecWrap).           *)

\* the lines of a returned string: the pieces between line breaks
RECURSIVE LinesFrom(_, _, _, _)
LinesFrom(s, i, cur, acc) ==
    IF i > Len(s) THEN Append(acc, cur)
    ELSE IF s[i] = "\n" THEN LinesFrom(s, i + 1, <<>>, Append(acc, cur))
    ELSE LinesFrom(s, i + 1, Append(cur, s[i]), acc)

Lines(s) == LinesFrom(s, 1, <<>>, <<>>)

\* estimated width of a line in hundredths of a pixel, a space counted at
\* space_pct hundredths of the font size
RECURSIVE LineWidth(_, _, _)
LineWidth(line, size, space_pct) ==
    IF line = <<>> THEN 0
    ELSE (IF IsCJK(line[1]) THEN size * 110
          ELSE IF line[1] = " " THEN size * space_pct
          ELSE size * 65)
         + LineWidth(Tail(line), size, space_pct)

Budget100 == ((max_width_px * 85) \div 100) * 100

\* a line that is one token whose own estimated width exceeds the budget
OverlongToken(line) ==
    Len(Split(line)) = 1 /\ LineWidth(Split(line)[1], font_size, 65) > Budget100

HasToken(s) == \E i \in DOMAIN s : s[i] \notin Whitespace

\* C2: splitting the returned string on whitespace (line breaks included)
\* yields exactly the token sequence of the non-empty input: no token is
\* dropped, duplicated or reordered.
C2_TokensPreserved ==
    (returned /\ text # <<>>) => Split(result) = Split(text)

\* three tokens of the input were spread over two lines
C2_Witness ==
    /\ returned
    /\ Len(Split(text)) = 3
    /\ Len(Lines(result)) = 2
    /\ \E i \in DOMAIN text : text[i] = "\n"
    /\ result # text

\* C3 as stated: every produced line other than a lone over-long token has an
\* estimated width within the budget when a space counts like any other
\* narrow character (0.65 of the font size).
C3_BudgetSpacesNarrow ==
    (returned /\ HasToken(text)) =>
        \A i \in DOMAIN Lines(result) :
            OverlongToken(Lines(result)[i])
            \/ LineWidth(Lines(result)[i], font_size, 65) <= Budget100

\* C3 amended: the same with each space between two tokens of a line counted
\* at 0.35 of the font size, as the wrapper counts it.
C3_BudgetSpacesAsCounted ==
    (returned /\ HasToken(text)) =>
        \A i \in DOMAIN Lines(result) :
            OverlongToken(Lines(result)[i])
            \/ LineWidth(Lines(result)[i], font_size, 35) <= Budget100

\* a wrapped result one line of which holds two tokens
C3_Witness ==
    /\ returned
    /\ Len(Lines(result)) >= 2
    /\ \E i \in DOMAIN Lines(result) : Len(Split(Lines(result)[i])) = 2

AllOf(s, char) == \A i \in DOMAIN s : s[i] \in Whitespace \/ s[i] = char

\* the text with every non-whitespace character replaced by char
Recast(s, char) == [i \in DOMAIN s |-> IF s[i] \in Whitespace THEN s[i] ELSE char]

LineCount(s) == IF HasToken(s) THEN Len(Lines(s)) ELSE 0

\* C9: at the same font size and width, a text of wide characters only wraps
\* into at least as many lines as the text of narrow characters only that has
\* the same tokens lengths.
C9_WideAtLeastNarrow ==
    /\ (returned /\ AllOf(text, "W")) =>
          LineCount(result) >=
          LineCount(wrap_text_for_display(Recast(text, "a"), max_width_px, font_size))
    /\ (returned /\ AllOf(text, "a")) =>
          LineCount(result) <=
          LineCount(wrap_text_for_display(Recast(text, "W"), max_width_px, font_size))

\* a wide text that takes more lines than its narrow counterpart
C9_Witness ==
    /\ returned /\ AllOf(text, "W") /\ Len(Split(text)) >= 2
    /\ LineCount(result) >
       LineCount(wrap_text_for_display(Recast(text, "a"), max_width_px, font_size))
    /\ LineCount(wrap_text_for_display(Recast(text, "a"), max_width_px, font_size)) >= 1

-----------------------------------------------------------------------------
(* Properties of the timeline of a clip (checked under SpecClip).          *)

WordVisible == 1 \in drawn
InfoVisible == {2, 3, 4} \cap drawn # {}

\* C1: at every frame of the clip exactly one of the two states is enabled:
\* the word layer or the info layers, never both and never neither.
C1_ExactlyOneState ==
    frame >= 0 => (WordVisible /\ ~InfoVisible) \/ (InfoVisible /\ ~WordVisible)

-----------------------------------------------------------------------------
(* Properties of a run of main() (checked under Spec).                     *)

\* make_clip has been entered for the k-th row
Called(k) == k \in 1..idx /\ (k < idx \/ pc = "crashed")

RowCount == IF rows = UnboundRows THEN 0 ELSE Len(rows)

NoRender ==
    /\ jobs = <<>> /\ clips = {} /\ DOMAIN tmp_files = {}
    /\ manifest = None /\ concat_cmds = <<>>

\* C4: when the renderer fails on card k the run aborts: k is the last card
\* handed to the renderer, no manifest is written and no concatenation is
\* run; a concatenation is run at most once, and only when every card of the
\* table has produced its clip.
C4_AbortOnRenderFailure ==
    /\ \A k \in 1..Len(jobs) :
          jobs[k].out \notin clips =>
              /\ Len(jobs) = k
              /\ manifest = None /\ concat_cmds = <<>>
              /\ pc = "crashed" /\ exit_code = 1
    /\ Len(concat_cmds) <= 1
    /\ (concat_cmds # <<>> \/ manifest # None) =>
          /\ Len(jobs) = Len(rows)
          /\ \A k \in 1..Len(rows) : jobs[k].idx = k /\ jobs[k].out \in clips

\* the renderer failed on the second of three cards
C4_Witness ==
    /\ pc = "crashed" /\ error = "CalledProcessError"
    /\ Len(rows) = 3 /\ Len(jobs) = 2
    /\ jobs[1].out \in clips /\ jobs[2].out \notin clips

\* C5: a header that lacks a required column, or a table without data rows,
\* ends the run with exit code 1 before anything is rendered or
\* concatenated; for the header the diagnostic shows the headers found.
C5_RejectedBeforeRendering ==
    /\ (fieldnames # Unbound /\ \E c \in Required : c \notin Range(fieldnames)) =>
          /\ pc = "exited" /\ exit_code = 1 /\ NoRender
          /\ \E i \in DOMAIN stdout :
                stdout[i][1] = "Found headers:" /\ stdout[i][2] = fieldnames
    /\ rows = <<>> =>
          pc = "exited" /\ exit_code = 1 /\ NoRender

\* the table whose header has no reading column was rejected
C5_Witness ==
    /\ pc = "exited"
    /\ fieldnames = <<"word", "example_jp", "example_en">>

\* the number a clip file name carries
RECURSIVE ClipNumber(_)
ClipNumber(name) ==
    IF Len(name) <= 1 THEN 0
    ELSE LET d == name[Len(name) - 1]
             v == CHOOSE n \in 0..9 : DigitChar(n) = d
         IN  10 * ClipNumber(SubSeq(name, 1, Len(name) - 2) \o <<".mp4">>) + v

\* C6: the manifest names the clips 1..N in increasing order without gap or
\* duplicate, and its k-th entry is the file make_clip had the renderer
\* produce for the k-th data row.
C6_ManifestMatchesClips ==
    manifest # None =>
        /\ Len(manifest) = Len(rows)
        /\ Len(jobs) = Len(rows)
        /\ \A k \in 1..Len(manifest) :
              /\ ClipNumber(manifest[k]) = k
              /\ Len(manifest[k]) = 5
              /\ manifest[k] = jobs[k].out
              /\ jobs[k].idx = k
              /\ tmp_files[jobs[k].vf[1].textfile]
                 = write_textfile(Strip(rows[k]["word"]))

\* a manifest of three clips
C6_Witness ==
    manifest # None /\ Len(manifest) = 3 /\ pc = "done"

IsBlank(s) == s # None /\ ~HasToken(s)

AllStrings(row) == \A i \in 1..4 : ClipArgs(row)[i] # None

\* C7 as stated: for a blank field the persisted text is empty and the
\* render instruction holds no draw operation for that layer.
C7_NoDrawOperation ==
    \A k \in 1..Len(jobs) : \A i \in 1..4 :
        IsBlank(ClipArgs(rows[k])[i]) =>
            /\ tmp_files[TxtPath(k, LayerKinds[i])] = <<>>
            /\ \A j \in DOMAIN jobs[k].vf :
                  jobs[k].vf[j].textfile # TxtPath(k, LayerKinds[i])

\* C7 amended: for a blank field the persisted text is empty, and the render
\* instruction still holds all four draw operations, the one of that layer
\* reading the empty text; make_clip hands the card to the renderer unless a
\* field of the row is missing altogether.
C7_EmptyTextStillDrawn ==
    /\ \A k \in 1..Len(jobs) :
          /\ Len(jobs[k].vf) = 4
          /\ \A i \in 1..4 :
                IsBlank(ClipArgs(rows[k])[i]) =>
                    /\ tmp_files[TxtPath(k, LayerKinds[i])] = <<>>
                    /\ jobs[k].vf[i].textfile = TxtPath(k, LayerKinds[i])
    /\ \A k \in 1..RowCount :
          (Called(k) /\ AllStrings(rows[k])) => k <= Len(jobs)

\* a card with an empty example_en and a whitespace-only reading was rendered
C7_Witness ==
    \E k \in 1..Len(jobs) :
        /\ jobs[k].out \in clips
        /\ ClipArgs(rows[k])[4] = <<>>
        /\ ClipArgs(rows[k])[2] = <<" ", " ">>

\* C8: a row with a missing field is taken as having the empty string there:
\* make_clip raises nothing on it and hands the card to the renderer.
C8_MissingFieldIsEmpty ==
    \A k \in 1..RowCount :
        (Called(k) /\ ~AllStrings(rows[k])) => k <= Len(jobs)

\* C10 as stated: each of the four persisted texts is the field wrapped at
\* its layer's font size, the word at WORD_SIZE.
C10_AllFourWrapped ==
    \A k \in 1..Len(jobs) :
        /\ tmp_files[TxtPath(k, "_word.txt")] =
           write_textfile(wrap_text_for_display(Strip(rows[k]["word"]),
                                                TEXT_MAX_WIDTH, WORD_SIZE))
        /\ tmp_files[TxtPath(k, "_reading.txt")] =
           write_textfile(wrap_text_for_display(Strip(rows[k]["reading"]),
                                                TEXT_MAX_WIDTH, READING_SIZE))
        /\ tmp_files[TxtPath(k, "_jp.txt")] =
           write_textfile(wrap_text_for_display(Strip(rows[k]["example_jp"]),
                                                TEXT_MAX_WIDTH, JP_EX_SIZE))
        /\ tmp_files[TxtPath(k, "_en.txt")] =
           write_textfile(wrap_text_for_display(Strip(rows[k]["example_en"]),
                                                TEXT_MAX_WIDTH, EN_EX_SIZE))

\* C10 amended: reading, example_jp and example_en are persisted wrapped at
\* their layer's font size and TEXT_MAX_WIDTH; the word is persisted stripped
\* and not wrapped.
C10_ThreeWrappedWordStripped ==
    \A k \in 1..Len(jobs) :
        /\ tmp_files[TxtPath(k, "_word.txt")] = write_textfile(Strip(rows[k]["word"]))
        /\ tmp_files[TxtPath(k, "_reading.txt")] =
           write_textfile(wrap_text_for_display(Strip(rows[k]["reading"]),
                                                TEXT_MAX_WIDTH, READING_SIZE))
        /\ tmp_files[TxtPath(k, "_jp.txt")] =
           write_textfile(wrap_text_for_display(Strip(rows[k]["example_jp"]),
                                                TEXT_MAX_WIDTH, JP_EX_SIZE))
        /\ tmp_files[TxtPath(k, "_en.txt")] =
           write_textfile(wrap_text_for_display(Strip(rows[k]["example_en"]),
                                                TEXT_MAX_WIDTH, EN_EX_SIZE))

\* a card whose word the wrapper would break and whose example_en it did break
C10_Witness ==
    \E k \in 1..Len(jobs) :
        /\ Len(Lines(wrap_text_for_display(Strip(rows[k]["word"]),
                                           TEXT_MAX_WIDTH, WORD_SIZE))) = 2
        /\ Len(Lines(tmp_files[TxtPath(k, "_word.txt")])) = 1
        /\ Len(Lines(tmp_files[TxtPath(k, "_en.txt")])) = 2
        /\ Len(Lines(tmp_files[TxtPath(k, "_jp.txt")])) = 2

====
